---- MODULE Spec2Model ----
(***************************************************************************)
(* Model of the pad-2.0 persistence layer and generation workflow:         *)
(*   - JSONRepository (src/infrastructure/repositories/json_repository.py) *)
(*   - create_content_store / prompt_store (.../repositories/stores.py)    *)
(*   - Project (src/domain/Entities/Project.py)                            *)
(*   - Artifact (src/domain/Entities/Artifact.py)                          *)
(*   - ProjectInitializationService, ArtifactGenerationService             *)
(*     (src/application/*.py)                                              *)
(*   - SQLRepository (src/infrastructure/repositories/sql_repository.py)   *)
(*                                                                         *)
(* The file system under db/ is the state.  A file is a sequence of the    *)
(* chunks json.dump streams into it, so that a write that stops part-way   *)
(* leaves a prefix, and json.load has to parse what it finds.              *)
(***************************************************************************)
EXTENDS Integers, Sequences, FiniteSets, TLC

VARIABLES
    fs,     \* fs[dir][id]: the file db/<dir>/<id>.json
    dirs,   \* the directories under db/ that exist
    last,   \* the call that ran last: its name, arguments and outcome
    db,     \* the SQLite database of an SQLRepository: the rows of its table
    writers \* writers[w]: where thread w is inside JSONRepository.save

vars == <<fs, dirs, last, db, writers>>

\* what the calls on the file-backed stores leave alone
others == <<db, writers>>

----------------------------------------------------------------------------
(* Bounds of the model *)

\* longest content list a caller passes
MaxContent == 1

\* an I/O failure during the write leaves the first k chunks, k in 0..MaxCut
MaxCut == 0

----------------------------------------------------------------------------
(* Values *)

\* ArtifactType values: the storage keys (domain/value_objects/artifact_type.py
\* is not part of the sources; the values are those of spec section 3)
QUESTIONNAIRE == "Questionnaire"
DOCUMENTATION == "Documentation"
ArtifactTypes == {QUESTIONNAIRE, DOCUMENTATION}

\* identifiers a caller saves and loads documents under
Ids == ArtifactTypes

\* a dict without an 'id' key: data.get('id') is None
NoId == "None"

\* the empty dict {}: falsy in a condition
EmptyDict == "{}"

\* records that json can serialise
JSONRecords == {"r1"}

\* a record holding a value json cannot serialise (a set, an enum member)
Unserialisable == "unserialisable"

Records == JSONRecords \cup {Unserialisable}

\* the project of the workflow
ProjectNames == {"demo"}

RECURSIVE SeqsUpTo(_, _)
SeqsUpTo(S, n) ==
    IF n = 0 THEN {<<>>}
    ELSE LET shorter == SeqsUpTo(S, n - 1)
         IN shorter \cup {Append(s, x) : s \in {t \in shorter : Len(t) = n - 1}, x \in S}

Contents == SeqsUpTo(Records, MaxContent)

\* contents json can serialise
JSONContents == SeqsUpTo(JSONRecords, MaxContent)

Document(id, type, content) == [id |-> id, type |-> type, content |-> content]

Documents == {Document(i, t, c) : i \in Ids \cup {NoId}, t \in ArtifactTypes, c \in Contents}

----------------------------------------------------------------------------
(* Outcomes of a call *)

None == [kind |-> "None"]
Raise(exc) == [kind |-> "raise", exc |-> exc]
Returned(v) == [kind |-> "value", value |-> v]

----------------------------------------------------------------------------
(* Directories *)

\* os.path.join('db', project_name)
ContentDir(project_name) == project_name

\* os.path.join('db', 'prompts')
PromptDir == "prompts"

Dirs == {ContentDir(n) : n \in ProjectNames} \cup {PromptDir}

NoFile == [exists |-> FALSE, data |-> <<>>]
File(data) == [exists |-> TRUE, data |-> data]

\* a directory without files
EmptyDir == [i \in Ids |-> NoFile]

\* the disk: the directories that exist and the files in them
Disk(directories, fsys) == [dirs |-> directories, fs |-> fsys]

\* mutant: the directory is made anew whether or not it exists
MakeDirs_Recreate(disk, dir) ==
    Disk(disk.dirs \cup {dir}, [disk.fs EXCEPT ![dir] = EmptyDir])

\* os.makedirs(dir, exist_ok=True): makes the directory unless it exists
MakeDirs(disk, dir) ==
    IF dir \in disk.dirs
    THEN disk
    ELSE Disk(disk.dirs \cup {dir}, [disk.fs EXCEPT ![dir] = EmptyDir])

\* JSONRepository.__init__(db_directory): the disk afterwards
JSONRepositoryNew(disk, db_directory) == MakeDirs(disk, db_directory)

\* create_content_store(project_name): the disk afterwards; the store it
\* returns is the repository on ContentDir(project_name)
CreateContentStore(disk, project_name) ==
    JSONRepositoryNew(MakeDirs(disk, ContentDir(project_name)), ContentDir(project_name))

----------------------------------------------------------------------------
(* json.dump and json.load *)

RECURSIVE Serialisable(_)
Serialisable(content) ==
    IF content = <<>> THEN TRUE
    ELSE Head(content) # Unserialisable /\ Serialisable(Tail(content))

\* the items json.dump writes before it meets one it cannot serialise
RECURSIVE SerialisablePrefix(_)
SerialisablePrefix(content) ==
    IF content = <<>> \/ Head(content) = Unserialisable THEN <<>>
    ELSE <<Head(content)>> \o SerialisablePrefix(Tail(content))

\* mutant: the values of 'id' and 'type' written under each other's key
Dump_SwappedFields(data) ==
    <<"{", "id", data.type, "type", data.id, "content", "[">>
        \o data.content \o <<"]", "}">>

\* the chunks json.dump(data, file, indent=2) streams for a serialisable dict
Dump(data) ==
    <<"{", "id", data.id, "type", data.type, "content", "[">>
        \o data.content \o <<"]", "}">>

\* what has reached the file when json.dump raises TypeError
DumpUntilTypeError(data) ==
    <<"{", "id", data.id, "type", data.type, "content", "[">>
        \o SerialisablePrefix(data.content)

Structural == {"{", "}", "[", "]", "id", "type", "content"}

\* json.load: the dict, or JSONDecodeError on anything but one complete object
WellFormed(t) ==
    /\ Len(t) >= 9
    /\ t[1] = "{" /\ t[2] = "id" /\ t[4] = "type" /\ t[6] = "content" /\ t[7] = "["
    /\ t[Len(t) - 1] = "]" /\ t[Len(t)] = "}"
    /\ t[3] \notin Structural /\ t[5] \notin Structural
    /\ \A i \in 8..(Len(t) - 2) : t[i] \notin Structural

Parse(t) ==
    IF WellFormed(t)
    THEN Returned(Document(t[3], t[5], SubSeq(t, 8, Len(t) - 2)))
    ELSE Raise("JSONDecodeError")

----------------------------------------------------------------------------
(* The environment: what can go wrong inside open() and write() *)

\* at = "none": no failure;  "open": open(file_path, 'w') raises IOError and
\* the file is untouched;  "write": the file was opened (and so truncated) and
\* an IOError stops the write after k chunks.  Reads are taken to work: the
\* only failure of a read is a file that does not parse.
Faults ==
    {[at |-> a, k |-> 0] : a \in {"none", "open"}}
        \cup {[at |-> "write", k |-> k] : k \in 0..MaxCut}

NoFault == [at |-> "none", k |-> 0]

Min(a, b) == IF a < b THEN a ELSE b

----------------------------------------------------------------------------
(* JSONRepository: every operation works on the files of one directory *)

\* what open(file_path, 'w') and json.dump leave in the file
Written(data, fault) ==
    LET complete == Serialisable(data.content)
        stream   == IF complete THEN Dump(data) ELSE DumpUntilTypeError(data)
        most     == IF complete THEN Len(stream) - 1 ELSE Len(stream)
    IN  IF fault.at = "write"
        THEN SubSeq(stream, 1, Min(fault.k, most))
        ELSE stream

\* mutant: the file opened with 'a' instead of 'w', so a save appends
JSONSave_Append(files, data, fault) ==
    LET identifier == data.id
    IN  IF identifier = NoId
        THEN [files |-> files, ret |-> Raise("ValueError")]
        ELSE IF fault.at = "open"
        THEN [files |-> files, ret |-> None]
        ELSE [files |-> [files EXCEPT ![identifier] =
                            File(files[identifier].data \o Written(data, fault))],
              ret   |-> IF fault.at = "none" /\ Serialisable(data.content)
                        THEN Returned(identifier)
                        ELSE None]

\* mutant: no test of the id; a dict without one is filed under its type
JSONSave_KeyFromType(files, data, fault) ==
    LET identifier == IF data.id = NoId THEN data.type ELSE data.id
    IN  IF fault.at = "open"
        THEN [files |-> files, ret |-> None]
        ELSE [files |-> [files EXCEPT ![identifier] = File(Written(data, fault))],
              ret   |-> IF fault.at = "none" /\ Serialisable(data.content)
                        THEN Returned(identifier)
                        ELSE None]

\* JSONRepository.save: [files |-> the directory afterwards, ret |-> outcome]
JSONSave(files, data, fault) ==
    LET identifier == data.id
    IN  IF identifier = NoId
        THEN [files |-> files, ret |-> Raise("ValueError")]
        ELSE IF fault.at = "open"
        THEN [files |-> files, ret |-> None]
        ELSE [files |-> [files EXCEPT ![identifier] = File(Written(data, fault))],
              ret   |-> IF fault.at = "none" /\ Serialisable(data.content)
                        THEN Returned(identifier)
                        ELSE None]

\* mutant: no os.path.exists test and no except clause around open()
JSONLoad_NoExistsCheck(files, identifier) ==
    IF ~files[identifier].exists
    THEN Raise("FileNotFoundError")
    ELSE LET parsed == Parse(files[identifier].data)
         IN  IF parsed.kind = "raise" THEN None ELSE parsed

\* JSONRepository.load
JSONLoad(files, identifier) ==
    IF ~files[identifier].exists
    THEN None
    ELSE LET parsed == Parse(files[identifier].data)
         IN  IF parsed.kind = "raise" THEN None ELSE parsed

\* JSONRepository.delete
JSONDelete(files, identifier, oserror) ==
    IF files[identifier].exists
    THEN IF oserror
         THEN [files |-> files, ret |-> Returned(FALSE)]
         ELSE [files |-> [files EXCEPT ![identifier] = NoFile], ret |-> Returned(TRUE)]
    ELSE [files |-> files, ret |-> Returned(FALSE)]

\* JSONRepository.get_all: the documents of every *.json file, in os.listdir
\* order (unspecified, so a set here); [] as soon as one file does not parse
JSONGetAll(files) ==
    LET names == {i \in DOMAIN files : files[i].exists}
    IN  IF \E i \in names : Parse(files[i].data).kind = "raise"
        THEN {}
        ELSE {Parse(files[i].data).value : i \in names}

\* item.get(k)
DictGet(item, k) == IF k \in DOMAIN item THEN item[k] ELSE "None"

\* JSONRepository.find_by: criteria is a dict, here a function field -> value
JSONFindBy(files, criteria) ==
    {item \in JSONGetAll(files) :
        \A k \in DOMAIN criteria : DictGet(item, k) = criteria[k]}

\* the criteria callers pass: {}, one field, or both
CriteriaFields == {"id", "type"}

Criteria ==
    UNION {[F -> Ids] : F \in SUBSET CriteriaFields}

----------------------------------------------------------------------------
(* Project: its content store is the directory of its name *)

\* Project.__init__(name): the disk afterwards
ProjectNew(disk, name) == CreateContentStore(disk, name)

\* Project.initialize_with_questionnaire: the content store afterwards
\* (the result of save is dropped; the method returns None)
ProjectInitializeWithQuestionnaire(files, questionnaire_content, fault) ==
    JSONSave(files,
             Document(QUESTIONNAIRE, QUESTIONNAIRE, <<questionnaire_content>>),
             fault).files

\* Project.get_content
ProjectGetContent(files, artifact_type) ==
    LET result == JSONLoad(files, artifact_type)
    IN  IF result.kind = "value" THEN Returned(result.value.content) ELSE None

\* mutant: every document is saved under the questionnaire key
ProjectUpdateContent_FixedId(files, content, artifact_type, fault) ==
    JSONSave(files, Document(QUESTIONNAIRE, artifact_type, content), fault).files

\* Project.update_content: the content store afterwards (returns None)
ProjectUpdateContent(files, content, artifact_type, fault) ==
    JSONSave(files, Document(artifact_type, artifact_type, content), fault).files

----------------------------------------------------------------------------
(* Artifact *)

\* str(uuid.uuid4()): an identifier no stored document carries
FreshUuid == "uuid4"

\* Artifact.__init__(self, project_id, type, content_store=None), called with
\* the keyword arguments kwargs: Python raises TypeError when a parameter
\* without a default is not supplied
ArtifactNew(kwargs) ==
    IF {"project_id", "type"} \subseteq DOMAIN kwargs
    THEN Returned([id |-> FreshUuid, project_id |-> kwargs["project_id"],
                   type |-> kwargs["type"]])
    ELSE Raise("TypeError")

\* Artifact.get_prompts
ArtifactGetPrompts(promptFiles, artifact) ==
    JSONFindBy(promptFiles,
               ("artifact_id" :> artifact.id) @@ ("project_id" :> artifact.project_id))

\* Artifact.create_prompt(self, template), called with the positional
\* arguments args: one Prompt per item of the template's objects
ArtifactCreatePrompt(args) ==
    IF Len(args) # 1
    THEN Raise("TypeError")
    ELSE LET template == args[1]
             contexts == template.content
         IN  Returned([i \in 1..Len(contexts) |->
                        [template |-> [id |-> template.id, type |-> template.type],
                         context  |-> contexts[i]]])

----------------------------------------------------------------------------
(* ArtifactGenerationService.generate_artifact *)

\* bool(x) of an Optional[List]: None and [] are falsy
Truthy(context) == context.kind = "value" /\ context.value # <<>>

\* ExternalServiceClient(llm_service): llm_service is read as a module global,
\* which exists only when the module runs as a script (and is a str then)
ClientNew(script) ==
    IF script THEN Returned("str") ELSE Raise("NameError")

\* ExternalServiceClient.request: reads self.config.base_url first
ClientRequest(config, response) ==
    IF config = "str" THEN Raise("AttributeError") ELSE response

Outcome(disk, ret, context, requested) ==
    [disk |-> disk, ret |-> ret, context |-> context, requested |-> requested]

\* mutant: the stored content is cleared before anything else is done
GenerateArtifactRun_ClearFirst(disk, project_name, artifact_type, additional_context, response, fault, script) ==
    LET dir      == ContentDir(project_name)
        made     == ProjectNew(disk, project_name)
        cleared  == [made.fs EXCEPT ![dir] =
                        ProjectUpdateContent(made.fs[dir], <<>>, artifact_type, fault)]
        artifact == ArtifactNew("type" :> artifact_type)
    IN  Outcome(Disk(made.dirs, cleared), artifact, None, FALSE)

\* the steps of generate_artifact in the order of the code; each result names
\* the disk afterwards, the outcome, the context resolved so far and whether
\* the generation client was asked
GenerateArtifactRun(disk, project_name, artifact_type, additional_context, response, fault, script) ==
    LET dir      == ContentDir(project_name)
        artifact == ArtifactNew("type" :> artifact_type)
    IN
    IF artifact.kind = "raise" THEN Outcome(disk, artifact, None, FALSE)
    ELSE
    LET templates == ArtifactGetPrompts(disk.fs[PromptDir], artifact.value)
        made      == ProjectNew(disk, project_name)
        fsys      == made.fs
        stored    == ProjectGetContent(fsys[dir], artifact_type)
        context   == IF ~Truthy(stored) /\ additional_context # EmptyDict
                     THEN Returned(<<additional_context>>)
                     ELSE stored
    IN
    IF ~Truthy(context) THEN Outcome(made, Raise("ValueError"), context, FALSE)
    ELSE IF templates = {} THEN Outcome(made, Raise("IndexError"), context, FALSE)
    ELSE
    LET first   == CHOOSE t \in templates : TRUE
        prompts == ArtifactCreatePrompt(<<first, context.value>>)
        client  == ClientNew(script)
    IN
    IF prompts.kind = "raise" THEN Outcome(made, prompts, context, FALSE)
    ELSE IF client.kind = "raise" THEN Outcome(made, client, context, FALSE)
    ELSE
    LET content == ClientRequest(client.value, response)
    IN
    IF content.kind = "raise" THEN Outcome(made, content, context, TRUE)
    ELSE Outcome(Disk(made.dirs,
                      [fsys EXCEPT ![dir] =
                          ProjectUpdateContent(fsys[dir], content.value, artifact_type, fault)]),
                 Returned(TRUE), context, TRUE)

----------------------------------------------------------------------------
(* SQLRepository: one table, made by the application before the calls *)

\* the values a caller stores in the second column
SqlValues == {"v1", "v2"}

\* data['values'] of a save: the columns id and value
SqlRows == [id : Ids, value : SqlValues]

\* the table as the application made it: its id column declared PRIMARY KEY
\* (unique) or not; the repository takes either
EmptyTable(unique) == [unique |-> unique, rows |-> <<>>]

\* SQLRepository.save: INSERT INTO table (columns) VALUES (...). A second row
\* with the id of an existing one violates a unique column: sqlite3 raises
\* IntegrityError, the except clause rolls back and save returns None.
\* Otherwise the row is appended and its rowid returned.
SQLSave(table, values) ==
    IF table.unique /\ \E k \in 1..Len(table.rows) : table.rows[k].id = values.id
    THEN [table |-> table, ret |-> None]
    ELSE [table |-> [table EXCEPT !.rows = Append(@, values)],
          ret   |-> Returned(Len(table.rows) + 1)]

\* SQLRepository.load: SELECT * FROM table WHERE id = ?, then fetchone():
\* the first matching row in rowid order, or None
SQLLoad(table, value) ==
    LET matching == SelectSeq(table.rows, LAMBDA r : r.id = value)
    IN  IF matching = <<>> THEN None ELSE Returned(Head(matching))

----------------------------------------------------------------------------
(* Threads inside JSONRepository.save *)

\* threads that call update_content on the same project
Writers == {"w1", "w2"}

\* not inside save
Idle == [pc |-> "idle", data |-> None]

\* between open(file_path, 'w') and the end of the with block: the dict is
\* being dumped into the file object's buffer
Dumping(data) == [pc |-> "dumping", data |-> data]

\* save has returned the identifier
Done(data) == [pc |-> "done", data |-> data]

\* write() of a file opened with 'w' at offset 0: the bytes replace what is
\* there from the start of the file; what lies beyond them stays
WriteAtStart(old, new) ==
    IF Len(new) >= Len(old) THEN new
    ELSE new \o SubSeq(old, Len(new) + 1, Len(old))

----------------------------------------------------------------------------
(* State *)

\* what load(identifier) returned just before a call (None for a dict without id)
Before(dir, identifier) ==
    IF identifier \in Ids THEN JSONLoad(fs[dir], identifier) ELSE None

Call(op, dir, arg, ret, before) ==
    [op |-> op, dir |-> dir, arg |-> arg, ret |-> ret, before |-> before]

\* importing stores.py has made the prompt store; no project exists yet
Init ==
    /\ fs = [d \in Dirs |-> EmptyDir]
    /\ dirs = {PromptDir}
    /\ db = EmptyTable(FALSE)
    /\ writers = [w \in Writers |-> Idle]
    /\ last = Call("none", PromptDir, None, None, None)

----------------------------------------------------------------------------
(* Calls on a repository *)

Save(dir, data, fault) ==
    LET r == JSONSave(fs[dir], data, fault)
    IN  /\ fs' = [fs EXCEPT ![dir] = r.files]
        /\ UNCHANGED others
        /\ last' = Call("save", dir, data, r.ret, Before(dir, data.id))
        /\ UNCHANGED dirs

Load(dir, identifier) ==
    /\ UNCHANGED others
    /\ last' = Call("load", dir, identifier, JSONLoad(fs[dir], identifier),
                    Before(dir, identifier))
    /\ UNCHANGED <<fs, dirs>>

Delete(dir, identifier, oserror) ==
    LET r == JSONDelete(fs[dir], identifier, oserror)
    IN  /\ fs' = [fs EXCEPT ![dir] = r.files]
        /\ UNCHANGED others
        /\ last' = Call("delete", dir, identifier, r.ret, Before(dir, identifier))
        /\ UNCHANGED dirs

GetAll(dir) ==
    /\ UNCHANGED others
    /\ last' = Call("get_all", dir, None, Returned(JSONGetAll(fs[dir])), None)
    /\ UNCHANGED <<fs, dirs>>

FindBy(dir, criteria) ==
    /\ UNCHANGED others
    /\ last' = Call("find_by", dir, criteria,
                    Returned(JSONFindBy(fs[dir], criteria)), None)
    /\ UNCHANGED <<fs, dirs>>

----------------------------------------------------------------------------
(* Calls on a project and on the services *)

\* questionnaires and additional contexts a caller passes
Questionnaires == Records

\* what the generation client answers: content, or a transport failure
Responses == {Returned(<<>>), Returned(<<"r1">>), Raise("RequestException")}

\* the prompt templates someone puts into the prompt store
Templates == {Document(t, t, <<"r1">>) : t \in ArtifactTypes}

\* ProjectInitializationService.initialize_project
InitializeProject(project_name, questionnaire_content, fault) ==
    IF project_name = ""
    THEN /\ last' = Call("initialize_project", PromptDir, questionnaire_content,
                         Raise("ValueError"), None)
         /\ UNCHANGED <<fs, dirs>>
         /\ UNCHANGED others
    ELSE LET dir  == ContentDir(project_name)
             made == ProjectNew(Disk(dirs, fs), project_name)
         IN  /\ fs' = [made.fs EXCEPT ![dir] =
                        IF questionnaire_content # EmptyDict
                        THEN ProjectInitializeWithQuestionnaire(
                                 made.fs[dir], questionnaire_content, fault)
                        ELSE made.fs[dir]]
             /\ dirs' = made.dirs
             /\ UNCHANGED others
             /\ last' = Call("initialize_project", dir, questionnaire_content,
                             Returned(project_name), Before(dir, QUESTIONNAIRE))

InitializeWithQuestionnaire(project_name, questionnaire_content, fault) ==
    LET dir  == ContentDir(project_name)
        made == ProjectNew(Disk(dirs, fs), project_name)
    IN  /\ fs' = [made.fs EXCEPT ![dir] =
                    ProjectInitializeWithQuestionnaire(made.fs[dir], questionnaire_content, fault)]
        /\ dirs' = made.dirs
        /\ UNCHANGED others
        /\ last' = Call("initialize_with_questionnaire", dir,
                        Document(QUESTIONNAIRE, QUESTIONNAIRE, <<questionnaire_content>>),
                        None, Before(dir, QUESTIONNAIRE))

GetContent(project_name, artifact_type) ==
    LET dir  == ContentDir(project_name)
        made == ProjectNew(Disk(dirs, fs), project_name)
    IN  /\ last' = Call("get_content", dir, artifact_type,
                        ProjectGetContent(made.fs[dir], artifact_type),
                        Before(dir, artifact_type))
        /\ fs' = made.fs
        /\ dirs' = made.dirs
        /\ UNCHANGED others

UpdateContent(project_name, content, artifact_type, fault) ==
    LET dir  == ContentDir(project_name)
        made == ProjectNew(Disk(dirs, fs), project_name)
    IN  /\ fs' = [made.fs EXCEPT ![dir] =
                    ProjectUpdateContent(made.fs[dir], content, artifact_type, fault)]
        /\ dirs' = made.dirs
        /\ UNCHANGED others
        /\ last' = Call("update_content", dir,
                        Document(artifact_type, artifact_type, content),
                        None, Before(dir, artifact_type))

GenerateArtifact(project_name, artifact_type, additional_context, response, fault, script) ==
    LET r == GenerateArtifactRun(Disk(dirs, fs), project_name, artifact_type,
                                 additional_context, response, fault, script)
    IN  /\ fs' = r.disk.fs
        /\ dirs' = r.disk.dirs
        /\ UNCHANGED others
        /\ last' = Call("generate_artifact", ContentDir(project_name),
                        [type |-> artifact_type,
                         additional_context |-> additional_context,
                         response |-> response,
                         fault |-> fault.at,
                         context |-> r.context,
                         requested |-> r.requested],
                        r.ret, Before(ContentDir(project_name), artifact_type))

\* artifact.create_prompt(*args) on an Artifact(project_id, type): with the
\* template alone, or with the template and the contexts as generate_artifact
\* calls it
CreatePrompt(args) ==
    /\ UNCHANGED others
    /\ last' = Call("create_prompt", PromptDir, args, ArtifactCreatePrompt(args), None)
    /\ UNCHANGED <<fs, dirs>>

\* Project(name): the constructor on its own
NewProject(name) ==
    LET made == ProjectNew(Disk(dirs, fs), name)
    IN  /\ fs' = made.fs
        /\ dirs' = made.dirs
        /\ UNCHANGED others
        /\ last' = Call("Project", ContentDir(name), name, None, None)

\* prompt_store.save(template)
SavePrompt(template) == Save(PromptDir, template, NoFault)

\* Artifact(project_id, type).get_prompts()
GetPrompts(project_id, artifact_type) ==
    LET artifact == ArtifactNew(("project_id" :> project_id) @@ ("type" :> artifact_type))
    IN  /\ last' = Call("get_prompts", PromptDir, artifact_type,
                        Returned(ArtifactGetPrompts(fs[PromptDir], artifact.value)), None)
        /\ UNCHANGED <<fs, dirs>>
        /\ UNCHANGED others

----------------------------------------------------------------------------
(* The workflow: a project, the prompt store and the two services *)

Next ==
    \/ \E t \in Templates : SavePrompt(t)
    \/ \E n \in ProjectNames \cup {""}, q \in Questionnaires \cup {EmptyDict}, f \in Faults :
           InitializeProject(n, q, f)
    \/ \E n \in ProjectNames, q \in Questionnaires, f \in Faults :
           InitializeWithQuestionnaire(n, q, f)
    \/ \E n \in ProjectNames, t \in ArtifactTypes : GetContent(n, t)
    \/ \E n \in ProjectNames, t \in ArtifactTypes : Load(ContentDir(n), t)
    \/ \E n \in ProjectNames, c \in Contents, t \in ArtifactTypes, f \in Faults :
           UpdateContent(n, c, t, f)
    \/ \E n \in ProjectNames, t \in ArtifactTypes, a \in JSONRecords \cup {EmptyDict},
          r \in Responses, f \in Faults, s \in BOOLEAN :
           GenerateArtifact(n, t, a, r, f, s)
    \/ \E n \in ProjectNames, t \in ArtifactTypes : GetPrompts(n, t)
    \/ \E n \in ProjectNames : NewProject(n)
    \/ \E t \in Templates, c \in JSONContents : CreatePrompt(<<t>>) \/ CreatePrompt(<<t, c>>)

Spec == Init /\ [][Next]_vars

----------------------------------------------------------------------------
(* One repository on its own: the prompt store, with every call of the     *)
(* repository contract                                                     *)

StoreNext ==
    \/ \E data \in Documents, f \in Faults : Save(PromptDir, data, f)
    \/ \E i \in Ids : Load(PromptDir, i)
    \/ \E i \in Ids, e \in BOOLEAN : Delete(PromptDir, i, e)
    \/ GetAll(PromptDir)
    \/ \E c \in Criteria : FindBy(PromptDir, c)

StoreSpec == Init /\ [][StoreNext]_vars

----------------------------------------------------------------------------
(* An SQLRepository on its own *)

\* rows the table may grow to
MaxRows == 3

\* the table of the documents
DocumentsTable == "documents"

\* repo.save({'table': ..., 'values': values})
SqlSave(values) ==
    LET r == SQLSave(db, values)
    IN  /\ Len(db.rows) < MaxRows
        /\ db' = r.table
        /\ last' = Call("sql_save", DocumentsTable, values, r.ret, SQLLoad(db, values.id))
        /\ UNCHANGED <<fs, dirs, writers>>

\* repo.load({'table': ..., 'key': 'id', 'value': identifier})
SqlLoad(identifier) ==
    /\ last' = Call("sql_load", DocumentsTable, identifier, SQLLoad(db, identifier),
                    SQLLoad(db, identifier))
    /\ UNCHANGED <<fs, dirs, db, writers>>

SqlInit ==
    /\ fs = [d \in Dirs |-> EmptyDir]
    /\ dirs = {PromptDir}
    /\ db \in {EmptyTable(unique) : unique \in BOOLEAN}
    /\ writers = [w \in Writers |-> Idle]
    /\ last = Call("none", DocumentsTable, None, None, None)

SqlNext ==
    \/ \E values \in SqlRows : SqlSave(values)
    \/ \E i \in Ids : SqlLoad(i)

SqlSpec == SqlInit /\ [][SqlNext]_vars

----------------------------------------------------------------------------
(* Threads that call update_content on one project at the same time.  A    *)
(* document is smaller than the file object's buffer, so the dump reaches  *)
(* the file in one write when the with block ends.                         *)

\* Project(name).update_content(content, type) up to and including
\* open(file_path, 'w') in save: the file is truncated
BeginUpdate(w, project_name, content, artifact_type) ==
    LET dir  == ContentDir(project_name)
        made == ProjectNew(Disk(dirs, fs), project_name)
    IN  /\ writers[w].pc # "dumping"
        /\ fs' = [made.fs EXCEPT ![dir][artifact_type] = File(<<>>)]
        /\ dirs' = made.dirs
        /\ writers' = [writers EXCEPT ![w] =
                          Dumping(Document(artifact_type, artifact_type, content))]
        /\ UNCHANGED <<last, db>>

\* the rest of save: json.dump, the flush at the end of the with block, and
\* the return
EndUpdate(w, project_name) ==
    LET dir  == ContentDir(project_name)
        data == writers[w].data
    IN  /\ writers[w].pc = "dumping"
        /\ fs' = [fs EXCEPT ![dir][data.id] =
                     File(WriteAtStart(fs[dir][data.id].data, Dump(data)))]
        /\ writers' = [writers EXCEPT ![w] = Done(data)]
        /\ last' = Call("update_content", dir, data, None, None)
        /\ UNCHANGED <<dirs, db>>

RaceNext ==
    \/ \E w \in Writers, n \in ProjectNames, c \in JSONContents, t \in ArtifactTypes :
           BeginUpdate(w, n, c, t)
    \/ \E w \in Writers, n \in ProjectNames : EndUpdate(w, n)

RaceSpec == Init /\ [][RaceNext]_vars

----------------------------------------------------------------------------
(* Projects of several names next to the prompt store *)

\* names a caller gives a project: any string, the prompt store's included
AnyProjectNames == ProjectNames \cup {"prompts"}

NamesNext ==
    \/ \E t \in Templates : SavePrompt(t)
    \/ \E n \in AnyProjectNames, q \in JSONRecords : InitializeWithQuestionnaire(n, q, NoFault)
    \/ \E n \in AnyProjectNames, c \in JSONContents, t \in ArtifactTypes :
           UpdateContent(n, c, t, NoFault)

NamesSpec == Init /\ [][NamesNext]_vars

----------------------------------------------------------------------------
(* Claims about the file-backed store (StoreSpec) *)

\* the documents load can return from a directory
StoredDocuments(files) ==
    {JSONLoad(files, i).value : i \in {j \in Ids : JSONLoad(files, j).kind = "value"}}

SaveSucceeded == last.op = "save" /\ last.ret.kind = "value"

\* the save did not return the identifier although the dict has one
SaveFailed == last.op = "save" /\ last.arg.id # NoId /\ last.ret.kind # "value"

\* C1: idempotent overwrite. When save(D2) succeeds on a store that holds a
\* document D1 with the same id, the store holds exactly one document with
\* that id and load(id) returns D2.
C1_IdempotentOverwrite ==
    (SaveSucceeded /\ last.before.kind = "value") =>
        /\ JSONLoad(fs[last.dir], last.arg.id) = Returned(last.arg)
        /\ Cardinality({d \in StoredDocuments(fs[last.dir]) : d.id = last.arg.id}) = 1
        /\ Cardinality({i \in Ids : fs[last.dir][i].exists
                                     /\ Parse(fs[last.dir][i].data).kind = "value"
                                     /\ Parse(fs[last.dir][i].data).value.id = last.arg.id}) = 1

\* a second save has replaced a different, longer document with the same id
C1_Witness ==
    /\ SaveSucceeded
    /\ last.before.kind = "value"
    /\ last.before.value # last.arg
    /\ Len(last.before.value.content) > Len(last.arg.content)

\* C2: a failed write leaves the previous document unchanged. When save(D2)
\* fails while D1 is stored under the same id, load(id) still returns D1.
C2_FailedWriteKeepsPrevious ==
    (SaveFailed /\ last.before.kind = "value") =>
        JSONLoad(fs[last.dir], last.arg.id) = last.before

\* C7: a write failure in save reaches the caller as a raised, typed
\* StorageIOError: save does not complete normally without having written
\* the document.
C7_WriteFailurePropagates ==
    (last.op = "save" /\ last.arg.id # NoId
        /\ JSONLoad(fs[last.dir], last.arg.id) # Returned(last.arg)) =>
        last.ret.kind = "raise"

C10_CriteriaFilter ==
    last.op = "find_by" =>
        /\ (DOMAIN last.arg = {}) => last.ret.value = JSONGetAll(fs[last.dir])
        /\ last.ret.value =
              {d \in StoredDocuments(fs[last.dir]) :
                  \A k \in DOMAIN last.arg : d[k] = last.arg[k]}

----------------------------------------------------------------------------
(* Claims about the project and the generation workflow (Spec) *)

Generated == last.op = "generate_artifact"

\* get_content(type) just before the call
StoredBefore ==
    IF last.before.kind = "value" THEN Returned(last.before.value.content) ELSE None

\* the prompt store holds a template of the requested type
HasTemplate == JSONFindBy(fs[PromptDir], "type" :> last.arg.type) # {}

\* C3: context resolution. The context is the stored content when that is
\* present and non-empty; otherwise [additionalContext] when the caller
\* supplied one; otherwise the call fails with the no-context error (the
\* ValueError of line 52) and generates nothing.
C3_ContextResolution ==
    Generated =>
        /\ Truthy(StoredBefore) => last.arg.context = StoredBefore
        /\ (~Truthy(StoredBefore) /\ last.arg.additional_context # EmptyDict) =>
               last.arg.context = Returned(<<last.arg.additional_context>>)
        /\ (~Truthy(StoredBefore) /\ last.arg.additional_context = EmptyDict) =>
               /\ last.ret = Raise("ValueError")
               /\ ~last.arg.requested
               /\ JSONLoad(fs[last.dir], last.arg.type) = last.before

C5_FailureChangesNothing ==
    [][(last'.op = "generate_artifact" /\ last'.ret.kind = "raise") =>
          \A t \in ArtifactTypes :
              ProjectGetContent(fs'[last'.dir], t) = ProjectGetContent(fs[last'.dir], t)]_vars

\* a call failed on a project that has content stored for the requested type
C5_Witness ==
    /\ Generated
    /\ last.ret.kind = "raise"
    /\ Truthy(StoredBefore)
    /\ ProjectGetContent(fs[last.dir], last.arg.type) = StoredBefore

\* C6: no template. When the prompt store has no template of the requested
\* type, generate_artifact fails with NoTemplateError and the generation
\* client is not asked.
C6_NoTemplateError ==
    (Generated /\ ~HasTemplate) =>
        /\ last.ret = Raise("NoTemplateError")
        /\ ~last.arg.requested

\* C9: missing key. load(id) and get_content(type) for a key without a stored
\* document return None, do not raise and leave the store as it was.
C9_MissingKey ==
    [][(last'.op \in {"load", "get_content"} /\ ~fs[last'.dir][last'.arg].exists) =>
          /\ last'.ret = None
          /\ fs' = fs]_vars

\* get_content found nothing for one type while the other type is stored
C9_Witness ==
    /\ last.op = "get_content"
    /\ ~fs[last.dir][last.arg].exists
    /\ last.ret = None
    /\ \E t \in ArtifactTypes : fs[last.dir][t].exists

----------------------------------------------------------------------------
(* Claims about the project's documents (Spec) *)

\* the keys of a directory whose file loads as a document of the given type
KeysOfType(files, type) ==
    {i \in Ids : JSONLoad(files, i).kind = "value" /\ JSONLoad(files, i).value.type = type}

\* C11: one snapshot per type. After any sequence of
\* initialize_with_questionnaire, update_content and generate_artifact calls
\* the project's store holds at most one document per artifact type, every
\* stored document has id equal to its type, and it is stored under that id.
C11_OneDocumentPerType ==
    \A n \in ProjectNames :
        /\ \A d \in StoredDocuments(fs[ContentDir(n)]) : d.id = d.type
        /\ \A t \in ArtifactTypes : Cardinality(KeysOfType(fs[ContentDir(n)], t)) <= 1
        /\ \A i \in Ids : JSONLoad(fs[ContentDir(n)], i).kind = "value" =>
               JSONLoad(fs[ContentDir(n)], i).value.id = i

\* update_content has replaced a stored document while the project holds a
\* document of each type
C11_Witness ==
    /\ last.op = "update_content"
    /\ last.before.kind = "value"
    /\ last.before.value # last.arg
    /\ \A t \in ArtifactTypes : Cardinality(KeysOfType(fs[last.dir], t)) = 1

\* C12: get_prompts by type. Artifact.get_prompts returns exactly the stored
\* prompt templates whose type equals the artifact's type, and an empty list,
\* not an error, when there are none.
C12_GetPromptsByType ==
    last.op = "get_prompts" =>
        last.ret = Returned({d \in StoredDocuments(fs[PromptDir]) : d.type = last.arg})

\* C13: store creation is idempotent. Creating a Project for a name whose
\* directory exists changes no file; the documents saved through an earlier
\* instance are what get_content returns through the new one, and a write
\* through the new instance touches only the file of its own key.
C13_StoreCreationReusesNamespace ==
    [][(last'.dir \in dirs) =>
          /\ (last'.op = "Project") => fs' = fs
          /\ (last'.op = "get_content") =>
                 /\ fs' = fs
                 /\ last'.ret = ProjectGetContent(fs[last'.dir], last'.arg)
          /\ (last'.op \in {"update_content", "initialize_with_questionnaire"}) =>
                 \A i \in Ids \ {last'.arg.id} :
                     fs'[last'.dir][i] = fs[last'.dir][i]]_vars

\* a Project was created for a name that has a document of each type stored
C13_Witness ==
    /\ last.op = "Project"
    /\ last.dir \in dirs
    /\ Cardinality(StoredDocuments(fs[last.dir])) = Cardinality(ArtifactTypes)

\* C14: the questionnaire is always overwritten. Whatever was stored before,
\* after initialize_with_questionnaire(content) get_content(QUESTIONNAIRE)
\* returns [content], and the content of every other type is as it was.
C14_QuestionnaireOverwritten ==
    [][(last'.op = "initialize_with_questionnaire") =>
          /\ ProjectGetContent(fs'[last'.dir], QUESTIONNAIRE) = Returned(last'.arg.content)
          /\ \A t \in ArtifactTypes \ {QUESTIONNAIRE} :
                 ProjectGetContent(fs'[last'.dir], t) = ProjectGetContent(fs[last'.dir], t)]_vars

----------------------------------------------------------------------------
(* More claims about the file-backed store (StoreSpec) *)

\* C16: save without an id. save on a dict that has no id raises the
\* validation error (ValueError) and leaves every file of the store as it
\* was: no document is created, modified or removed.
C16_SaveWithoutId ==
    [][(last'.op = "save" /\ last'.arg.id = NoId) =>
          /\ last'.ret = Raise("ValueError")
          /\ fs' = fs]_vars

\* a dict without id was refused by a store that holds documents
C16_Witness ==
    /\ last.op = "save"
    /\ last.arg.id = NoId
    /\ last.ret.kind = "raise"
    /\ StoredDocuments(fs[last.dir]) # {}

----------------------------------------------------------------------------
(* Claims about prompts (Spec) *)

\* C17: one prompt per context. create_prompt(template, contexts) returns one
\* Prompt per record of contexts, in order, each pairing that record with the
\* template without its objects; an empty contexts gives an empty list and no
\* error.
C17_OnePromptPerContext ==
    (last.op = "create_prompt" /\ Len(last.arg) = 2) =>
        last.ret = Returned([i \in 1..Len(last.arg[2]) |->
                               [template |-> [id |-> last.arg[1].id, type |-> last.arg[1].type],
                                context  |-> last.arg[2][i]]])

----------------------------------------------------------------------------
(* Claims about the relational store (SqlSpec) *)

\* the rows of the table with a given id
RowsWithId(table, id) == {k \in 1..Len(table.rows) : table.rows[k].id = id}

\* C18: overwrite in the relational store. After a save of a document whose
\* id is already in the table, the table holds one row with that id and load
\* returns the values of this second save.
C18_SqlOverwrite ==
    (last.op = "sql_save" /\ last.before.kind = "value") =>
        /\ Cardinality(RowsWithId(db, last.arg.id)) = 1
        /\ SQLLoad(db, last.arg.id) = Returned(last.arg)

----------------------------------------------------------------------------
(* Claims about concurrent updates (RaceSpec) *)

\* every thread has completed an update_content of the same type
BothCompleted ==
    /\ \A w \in Writers : writers[w].pc = "done"
    /\ \A v, w \in Writers : writers[v].data.id = writers[w].data.id

\* C15: last write wins. Once concurrent update_content calls for the same
\* (project, type) have all completed, load returns a complete document
\* equal to the one of the call that wrote last: not a mixture, not a
\* document that does not parse, not None.
C15_LastWriteWins ==
    BothCompleted => JSONLoad(fs[last.dir], last.arg.id) = Returned(last.arg)

----------------------------------------------------------------------------
(* Claims about namespaces (NamesSpec) *)

\* C19: namespaces are isolated. initialize_with_questionnaire and
\* update_content on a project leave the files of every project of another
\* name as they were, and leave the files of the prompt store as they were,
\* whatever the project is called.
C19_NamespacesIsolated ==
    [][(last'.op \in {"initialize_with_questionnaire", "update_content"}) =>
          /\ \A n \in AnyProjectNames :
                 ContentDir(n) # last'.dir => fs'[ContentDir(n)] = fs[ContentDir(n)]
          /\ fs'[PromptDir] = fs[PromptDir]]_vars

====
